---------------------------- MODULE Spec2Model ----------------------------
(***************************************************************************)
(* A model of react-curved-arrow (src/src/CurvedArrow.js): the CurvedArrow *)
(* component's render pass with its retry timer, and the two curve         *)
(* functions bezier and quadraticCurveMinMax.                              *)
(*                                                                         *)
(* JavaScript numbers are modelled as exact rationals <<n, d>> with d > 0  *)
(* in lowest terms, so that halves (rect.width / 2), the critical          *)
(* parameter t (a quotient) and Math.round are computed, not assumed.      *)
(***************************************************************************)
EXTENDS Integers, FiniteSets, Sequences, TLC

VARIABLES
    \* ---- the curve functions on their own (CurveSpec)
    args,        \* <<p0, p1, p2>>: the control values of one axis
    extent,      \* the result of quadraticCurveMinMax(args), or None
    sample,      \* the last evaluation bezier(args, t), or None
    \* ---- one CurvedArrow instance in its host page (Spec, GeomSpec)
    serverSide,  \* typeof window === "undefined"
    lifecycle,   \* "new", "mounted", "unmounted"
    props,       \* this.props, defaults applied
    dom,         \* what document.querySelector / getBoundingClientRect / window.scrollY return
    timer,       \* this.timer: NoTimer or a timeout handle
    pending,     \* the handles of setTimeout callbacks not yet run nor cleared
    output,      \* what the last render pass returned: null or a canvas with its geometry
    pass,        \* what the document held at the last render pass, and whether it scheduled
    lastEvent    \* the last thing that happened to the instance

curveVars == <<args, extent, sample>>
compVars == <<serverSide, lifecycle, props, dom, timer, pending, output, pass, lastEvent>>
vars == <<args, extent, sample, serverSide, lifecycle, props, dom, timer, pending,
          output, pass, lastEvent>>

\* no value: an absent result, an unset field
None == <<>>
\* this.timer = null (a falsy handle); the handles setTimeout returns are positive
NoTimer == 0

---------------------------------------------------------------------------
(* Bounds of the model *)

\* coordinates of the curve functions range over the halves in -MaxCoord..MaxCoord
MaxCoord == 2
\* bezier is sampled at t = k / TDen, k in 0..TDen, and at the critical parameter
TDen == 4
\* at most this many timeouts are pending at once
MaxPending == 3

---------------------------------------------------------------------------
(* JavaScript number arithmetic, exact *)

\* the one element of a singleton set. {F(x) : x \in {e}} computes e once
\* and F on its value: the way a JavaScript call computes its arguments
Value(S) == CHOOSE v \in S : TRUE

Abs(n) == IF n < 0 THEN -n ELSE n

RECURSIVE Gcd(_, _)
Gcd(a, b) == IF b = 0 THEN a ELSE Value({Gcd(x[1], x[2]) : x \in {<<b, a % b>>}})

\* n / d in lowest terms, for the greatest common divisor g of n and d
Reduced(n, d, g) ==
    <<((IF d < 0 THEN -1 ELSE 1) * n) \div g, ((IF d < 0 THEN -1 ELSE 1) * d) \div g>>

\* the number n / d (d # 0) in lowest terms with a positive denominator
Rat(n, d) ==
    Value({Reduced(x[1], x[2], Gcd(Abs(x[1]), Abs(x[2]))) : x \in {<<n, d>>}})

Num(k) == <<k, 1>>

\* a and b over the common denominator l: the two numerators
Over(a, b, l) == <<a[1] * (l \div a[2]), b[1] * (l \div b[2])>>

\* the least common denominator of a and b
Lcd(a, b) == (a[2] \div Gcd(a[2], b[2])) * b[2]

\* a + b, over the least common denominator: the intermediate integers stay small
Add(a, b) ==
    Value({Rat(Over(x[1], x[2], x[3])[1] + Over(x[1], x[2], x[3])[2], x[3]) :
           x \in {<<y[1], y[2], Lcd(y[1], y[2])>> : y \in {<<a, b>>}}})

Neg(a) == Value({<<-x[1], x[2]>> : x \in {a}})

\* a - b
Sub(a, b) == Add(a, Neg(b))

\* a * b, the common factors g1 of a's numerator and b's denominator and g2
\* of b's numerator and a's denominator taken out first
Product(a, b, g1, g2) ==
    Rat((a[1] \div g1) * (b[1] \div g2), (a[2] \div g2) * (b[2] \div g1))
Mul(a, b) ==
    Value({Product(x[1], x[2], Gcd(Abs(x[1][1]), x[2][2]), Gcd(Abs(x[2][1]), x[1][2])) :
           x \in {<<a, b>>}})

\* a / b, b # 0
Div(a, b) == Mul(a, Value({Rat(x[2], x[1]) : x \in {b}}))

\* a / 2
Half(a) == Mul(a, Rat(1, 2))

\* a < b and a <= b
Lt(a, b) ==
    \E x \in {<<y[1], y[2], Lcd(y[1], y[2])>> : y \in {<<a, b>>}} :
        Over(x[1], x[2], x[3])[1] < Over(x[1], x[2], x[3])[2]
Leq(a, b) == ~Lt(b, a)

IsInt(a) == a[2] = 1
\* m is the integer nearest to x, a half counted to the integer above
IsNearest(m, x) ==
    /\ IsInt(m)
    /\ Leq(Sub(m, Rat(1, 2)), x)
    /\ Lt(x, Add(m, Rat(1, 2)))

\* Math.min(a, b) and Math.max(a, b)
MathMin(a, b) == Value({IF Lt(x[2], x[1]) THEN x[2] ELSE x[1] : x \in {<<a, b>>}})
MathMax(a, b) == Value({IF Lt(x[1], x[2]) THEN x[2] ELSE x[1] : x \in {<<a, b>>}})

MathRoundDown(a) == Value({Num(x[1] \div x[2]) : x \in {a}})

\* Math.round(a): the nearest integer, a half rounded towards +Infinity
MathRound(a) == Value({Num((2 * x[1] + x[2]) \div (2 * x[2])) : x \in {a}})

---------------------------------------------------------------------------
(* The curve functions *)

\* function bezier(p0, p1, p2, t):
\* p1 + (1 - t) * (1 - t) * (p0 - p1) + t * t * (p2 - p1)
bezier(p0, p1, p2, t) ==
    Value({Add(Add(a[2], Mul(Mul(Sub(Num(1), a[4]), Sub(Num(1), a[4])), Sub(a[1], a[2]))),
               Mul(Mul(a[4], a[4]), Sub(a[3], a[2]))) :
           a \in {<<p0, p1, p2, t>>}})

\* p0 - 2 * p1 + p2, the divisor of the critical parameter
Divisor(p0, p1, p2) == Add(Sub(p0, Mul(Num(2), p1)), p2)

\* min and max as quadraticCurveMinMax leaves them when it looks at no
\* interior point, and as it widens them by p_middle
EndsOnly(p0, p2) ==
    [min |-> MathMin(p0, p2), max |-> MathMax(p0, p2), middle |-> None]
Widened(p0, p2, p_middle) ==
    Value({[min |-> MathMin(MathMin(p0, p2), m),
            max |-> MathMax(MathMax(p0, p2), m),
            middle |-> m] : m \in {p_middle}})

MinMaxLocalsEndsOnly(p0, p1, p2) == EndsOnly(p0, p2)

\* the body of quadraticCurveMinMax with its locals: min and max before
\* rounding, and middle, the p_middle it evaluated (None when it evaluated none)
MinMaxLocals(p0, p1, p2) ==
    Value({IF Divisor(a[1], a[2], a[3]) # Num(0)
           THEN Value({IF Lt(Num(0), t) /\ Lt(t, Num(1))
                       THEN Widened(a[1], a[3], bezier(a[1], a[2], a[3], t))
                       ELSE EndsOnly(a[1], a[3]) :
                       t \in {Div(Sub(a[1], a[2]), Divisor(a[1], a[2], a[3]))}})
           ELSE EndsOnly(a[1], a[3]) :
           a \in {<<p0, p1, p2>>}})

\* function quadraticCurveMinMax(p0, p1, p2): [Math.round(min), Math.round(max)]
quadraticCurveMinMax(p0, p1, p2) ==
    Value({<<MathRound(l.min), MathRound(l.max)>> : l \in {MinMaxLocals(p0, p1, p2)}})

---------------------------------------------------------------------------
(* CurveSpec: the curve functions applied to every triple of control values *)

Coords == {Rat(n, 2) : n \in (-2 * MaxCoord)..(2 * MaxCoord)}
Grid == {Rat(k, TDen) : k \in 0..TDen}

\* the parameters bezier is sampled at for the triple a: the grid and, when
\* it lies in [0, 1], the root of the derivative
CriticalTs(a) ==
    LET dv == Divisor(a[1], a[2], a[3])
    IN  IF dv = Num(0) THEN {}
        ELSE LET t == Div(Sub(a[1], a[2]), dv)
             IN  IF Leq(Num(0), t) /\ Leq(t, Num(1)) THEN {t} ELSE {}

IdleComp ==
    /\ serverSide = FALSE
    /\ lifecycle = "new"
    /\ props = None
    /\ dom = None
    /\ timer = NoTimer
    /\ pending = {}
    /\ output = [kind |-> "removed"]
    /\ pass = None
    /\ lastEvent = "none"

CurveInit ==
    /\ args \in Coords \X Coords \X Coords
    /\ extent = None
    /\ sample = None
    /\ IdleComp

\* extent(p0, p1, p2)
Extent ==
    /\ extent = None
    /\ extent' = [minmax |-> quadraticCurveMinMax(args[1], args[2], args[3]),
                  middle |-> MinMaxLocals(args[1], args[2], args[3]).middle]
    /\ UNCHANGED <<args, sample>>
    /\ UNCHANGED compVars

\* evaluate(p0, p1, p2, t)
Evaluate ==
    /\ \E t \in Grid \cup CriticalTs(args) :
          sample' = [t |-> t, value |-> bezier(args[1], args[2], args[3], t)]
    /\ UNCHANGED <<args, extent>>
    /\ UNCHANGED compVars

CurveNext == Extent \/ Evaluate

CurveSpec == CurveInit /\ [][CurveNext]_vars

---------------------------------------------------------------------------
(* The CurvedArrow component *)

\* size: 30 in settings, the length of the arrow head's strokes
ArrowSize == 30
\* the delay of the retry, 200 ms, is not modelled: a pending timeout's
\* callback may run at any later step

\* document.querySelector(selector): the element's rectangle, or None
querySelector(d, selector) ==
    IF selector \in DOMAIN d.elements THEN d.elements[selector] ELSE None

\* the first handle not in use: setTimeout returns a handle no pending timeout has
NewHandle(pend) ==
    CHOOSE h \in 1..(Cardinality(pend) + 1) :
        h \notin pend /\ \A k \in 1..(h - 1) : k \in pend

\* clearTimeout(handle)
clearTimeout(pend, handle) == pend \ {handle}

\* if (dynamicUpdate || !fromElement || !toElement)
ShouldScheduleOnlyMissing(p, fromElement, toElement) ==
    fromElement = None \/ toElement = None

ShouldScheduleOnlyDynamic(p, fromElement, toElement) ==
    p.dynamicUpdate

ShouldSchedule(p, fromElement, toElement) ==
    p.dynamicUpdate \/ fromElement = None \/ toElement = None

\* if (hideIfFoundSelector) { if (document.querySelector(hideIfFoundSelector)) return null; }
SuppressedNever(p, d) == FALSE

Suppressed(p, d) ==
    /\ p.hideIfFoundSelector # ""
    /\ querySelector(d, p.hideIfFoundSelector) # None

\* rect.left + rect.width / 2 + offsetX
AnchorX(rect, offsetX) ==
    Add(Add(rect.left, Half(rect.width)), offsetX)

\* rect.top + rect.height / 2 - offsetY + window.scrollY
AnchorYOffsetDown(rect, offsetY, scrollY) ==
    Add(Add(Add(rect.top, Half(rect.height)), offsetY), scrollY)

AnchorY(rect, offsetY, scrollY) ==
    Add(Sub(Add(rect.top, Half(rect.height)), offsetY), scrollY)

\* (p0x + p2x) / 2 + middleX and (p0y + p2y) / 2 - middleY
ControlX(p0x, p2x, middleX) == Add(Half(Add(p0x, p2x)), middleX)
ControlY(p0y, p2y, middleY) == Sub(Half(Add(p0y, p2y)), middleY)

\* var settings = {p0x, p0y, p1x, p1y, p2x, p2y, size: 30, lineWidth: width, ...}
Settings(p, d, fromElement, toElement) ==
    Value({[p0x |-> a[1], p0y |-> a[2],
            p1x |-> ControlX(a[1], a[3], p.middleX),
            p1y |-> ControlY(a[2], a[4], p.middleY),
            p2x |-> a[3], p2y |-> a[4],
            size |-> Num(ArrowSize), lineWidth |-> p.width] :
           a \in {<<AnchorX(fromElement, p.fromOffsetX),
                    AnchorY(fromElement, p.fromOffsetY, d.scrollY),
                    AnchorX(toElement, p.toOffsetX),
                    AnchorY(toElement, p.toOffsetY, d.scrollY)>>}})

\* canvas.width = v, canvas.height = v: the canvas keeps a length of 0 or
\* more and falls back to its default (300 wide, 150 high) for a negative one
CanvasLength(v, default) ==
    Value({IF Lt(x, Num(0)) THEN Num(default) ELSE x : x \in {v}})

\* var padding = settings.size - settings.lineWidth
Padding(settings) == Sub(settings.size, settings.lineWidth)

\* the ref callback of the canvas once the two extents and the padding are
\* known: the box of the curve, padded, becomes the canvas's place and size,
\* and the points are moved into the canvas
CanvasAt(settings, x_min_max, y_min_max, padding) ==
    Value({[kind |-> "canvas",
            settings |-> settings,
            x_min_max |-> x_min_max,
            y_min_max |-> y_min_max,
            padding |-> padding,
            left |-> b.x_min,
            top |-> b.y_min,
            width |-> CanvasLength(Sub(b.x_max, b.x_min), 300),
            height |-> CanvasLength(Sub(b.y_max, b.y_min), 150),
            p0x |-> Sub(settings.p0x, b.x_min), p0y |-> Sub(settings.p0y, b.y_min),
            p1x |-> Sub(settings.p1x, b.x_min), p1y |-> Sub(settings.p1y, b.y_min),
            p2x |-> Sub(settings.p2x, b.x_min), p2y |-> Sub(settings.p2y, b.y_min)] :
           b \in {[x_min |-> Sub(x_min_max[1], padding),
                   x_max |-> Add(x_min_max[2], padding),
                   y_min |-> Sub(y_min_max[1], padding),
                   y_max |-> Add(y_min_max[2], padding)]}})

\* the ref callback of the canvas
Canvas(settings) ==
    Value({CanvasAt(s[1], s[2], s[3], s[4]) :
           s \in {<<settings,
                    quadraticCurveMinMax(settings.p0x, settings.p1x, settings.p2x),
                    quadraticCurveMinMax(settings.p0y, settings.p1y, settings.p2y),
                    Padding(settings)>>}})

NullOutput == [kind |-> "null"]

\* a record of the pass, kept for the properties: what the document held for
\* the selectors of p, whether the pass scheduled a timeout, and whether it is
\* a retry (run by a timeout after a pass that missed an anchor)
Seen(p, d, scheduled, retry) ==
    [fromFound |-> querySelector(d, p.fromSelector) # None,
     toFound |-> querySelector(d, p.toSelector) # None,
     hideFound |-> p.hideIfFoundSelector # "" /\ querySelector(d, p.hideIfFoundSelector) # None,
     scheduled |-> scheduled,
     retry |-> retry]

\* render(), with the canvas's ref callback that runs when the pass is
\* committed: the new this.timer, the pending timeouts and the output, for
\* props p, document d and pending timeouts pend
RenderResult(p, d, pend) ==
    LET timer0 == NoTimer
    IN  IF serverSide
        THEN [timer |-> timer0, pending |-> pend, output |-> NullOutput,
              scheduled |-> FALSE]
        ELSE LET fromElement == querySelector(d, p.fromSelector)
                 toElement == querySelector(d, p.toSelector)
                 pend1 == IF timer0 # NoTimer THEN clearTimeout(pend, timer0) ELSE pend
                 scheduled == ShouldSchedule(p, fromElement, toElement)
                 handle == NewHandle(pend1)
                 timer1 == IF scheduled THEN handle ELSE timer0
                 pend2 == IF scheduled THEN pend1 \cup {handle} ELSE pend1
                 out == IF fromElement = None \/ toElement = None THEN NullOutput
                        ELSE IF Suppressed(p, d) THEN NullOutput
                        ELSE Value({Canvas(st) : st \in {Settings(p, d, fromElement, toElement)}})
             IN  [timer |-> timer1, pending |-> pend2, output |-> out,
                  scheduled |-> scheduled]

\* one render pass as a step: the host's commit of what render() returned
Render(p, pend, byTimer) ==
    \E r \in {RenderResult(p, dom, pend)} :
        /\ Cardinality(r.pending) <= MaxPending
        /\ timer' = r.timer
        /\ pending' = r.pending
        /\ output' = r.output
        /\ pass' = Seen(p, dom, r.scheduled,
                        byTimer /\ pass # None /\ ~(pass.fromFound /\ pass.toFound))

\* the host mounts the component: the first render pass
Mount ==
    /\ lifecycle = "new"
    /\ lifecycle' = "mounted"
    /\ Render(props, pending, FALSE)
    /\ lastEvent' = "mount"
    /\ UNCHANGED <<serverSide, props, dom>>
    /\ UNCHANGED curveVars

\* forceUpdate() on an unmounted component: nothing is rendered
ForceUpdateAfterUnmount(h) ==
    /\ pending' = pending \ {h}
    /\ UNCHANGED <<timer, output, pass>>

\* the callback of setTimeout: this.forceUpdate(), which renders a mounted
\* component
TimerFire ==
    \E h \in pending :
        /\ IF lifecycle = "mounted"
           THEN Render(props, pending \ {h}, TRUE)
           ELSE ForceUpdateAfterUnmount(h)
        /\ lastEvent' = "timer"
        /\ UNCHANGED <<serverSide, lifecycle, props, dom>>
        /\ UNCHANGED curveVars

\* componentWillUnmount
Unmount ==
    /\ lifecycle = "mounted"
    /\ ~serverSide
    /\ lifecycle' = "unmounted"
    /\ pending' = IF timer # NoTimer THEN clearTimeout(pending, timer) ELSE pending
    /\ output' = [kind |-> "removed"]
    /\ lastEvent' = "unmount"
    /\ UNCHANGED <<serverSide, props, dom, timer, pass>>
    /\ UNCHANGED curveVars

---------------------------------------------------------------------------
(* Spec: one instance in an interactive page or on the server, re-rendered
   by its host and by its own timeouts while the page around it changes *)

Selectors == {"#from", "#to", "#menu"}

Rect(left, top, width, height) ==
    [left |-> Num(left), top |-> Num(top), width |-> Num(width), height |-> Num(height)]

\* the rectangle each selector's element has in Spec when it is in the page
PageRect(selector) ==
    CASE selector = "#from" -> Rect(90, 90, 20, 20)
      [] selector = "#to" -> Rect(290, 90, 20, 20)
      [] OTHER -> Rect(0, 0, 50, 10)

\* the pages of Spec: each of the three elements is there or not
SpecDoms ==
    {[elements |-> [sel \in Selectors |-> IF sel \in there THEN PageRect(sel) ELSE None],
      scrollY |-> Num(0)] : there \in SUBSET Selectors}

\* the props of Spec: toSelector given or defaulted to fromSelector,
\* hideIfFoundSelector given or not, dynamicUpdate on or off, the rest defaults
SpecProps ==
    {[fromSelector |-> "#from", toSelector |-> toSel,
      fromOffsetX |-> Num(0), fromOffsetY |-> Num(0),
      toOffsetX |-> Num(0), toOffsetY |-> Num(0),
      middleX |-> Num(0), middleY |-> Num(0),
      width |-> Num(8),
      hideIfFoundSelector |-> hideSel,
      dynamicUpdate |-> dyn] :
        toSel \in {"#from", "#to"}, hideSel \in {"", "#menu"}, dyn \in BOOLEAN}

IdleCurve ==
    /\ args = None
    /\ extent = None
    /\ sample = None

Init ==
    /\ serverSide \in BOOLEAN
    /\ lifecycle = "new"
    /\ props \in SpecProps
    /\ dom \in SpecDoms
    /\ timer = NoTimer
    /\ pending = {}
    /\ output = [kind |-> "removed"]
    /\ pass = None
    /\ lastEvent = "none"
    /\ IdleCurve

\* the host re-renders the component with new props (a PureComponent renders
\* again only for props that differ)
HostUpdate ==
    /\ lifecycle = "mounted"
    /\ ~serverSide
    /\ \E p \in SpecProps \ {props} :
          /\ props' = p
          /\ Render(p, pending, FALSE)
    /\ lastEvent' = "update"
    /\ UNCHANGED <<serverSide, lifecycle, dom>>
    /\ UNCHANGED curveVars

\* the page changes under the component: one element appears or disappears
DomChange ==
    /\ lifecycle = "mounted"
    /\ ~serverSide
    /\ \E d \in SpecDoms :
          /\ Cardinality({sel \in Selectors : d.elements[sel] # dom.elements[sel]}) = 1
          /\ dom' = d
    /\ lastEvent' = "dom"
    /\ UNCHANGED <<serverSide, lifecycle, props, timer, pending, output, pass>>
    /\ UNCHANGED curveVars

Next == Mount \/ HostUpdate \/ TimerFire \/ Unmount \/ DomChange

Spec == Init /\ [][Next]_vars

\* a pending timeout's callback runs in the end: the browser's timers fire
FairSpec == Spec /\ WF_vars(TimerFire)

---------------------------------------------------------------------------
(* GeomSpec: the first render pass over a range of rectangles, offsets,
   stroke widths and scroll positions, both anchors in the page *)

GeomFromRects == {Rect(90, 90, 20, 20), Rect(0, 0, 5, 5), Rect(200, 300, 30, 7)}
GeomToRects == {Rect(290, 90, 20, 20), Rect(40, 200, 21, 10)}
GeomOffsets == {Num(0), Num(15)}
GeomMiddles == {Num(0), Num(64), Num(-32)}
GeomWidths == {Num(8), Num(24), Num(40)}
GeomScrolls == {Num(0), Num(120)}

GeomDoms ==
    {[elements |-> [sel \in {"#from", "#to"} |-> IF sel = "#from" THEN rf ELSE rt],
      scrollY |-> sy] : rf \in GeomFromRects, rt \in GeomToRects, sy \in GeomScrolls}

GeomProps ==
    {[fromSelector |-> "#from", toSelector |-> "#to",
      fromOffsetX |-> o[1], fromOffsetY |-> o[2],
      toOffsetX |-> o[2], toOffsetY |-> o[1],
      middleX |-> m[1], middleY |-> m[2],
      width |-> w,
      hideIfFoundSelector |-> "",
      dynamicUpdate |-> FALSE] :
        o \in GeomOffsets \X GeomOffsets, m \in GeomMiddles \X GeomMiddles,
        w \in GeomWidths}

GeomInit ==
    /\ serverSide = FALSE
    /\ lifecycle = "new"
    /\ props \in GeomProps
    /\ dom \in GeomDoms
    /\ timer = NoTimer
    /\ pending = {}
    /\ output = [kind |-> "removed"]
    /\ pass = None
    /\ lastEvent = "none"
    /\ IdleCurve

GeomNext == Mount

GeomSpec == GeomInit /\ [][GeomNext]_vars

---------------------------------------------------------------------------
(* Claims about the retry timer and the surface, checked under Spec and FairSpec *)

Interactive == lifecycle = "mounted" /\ ~serverSide
BothFound == pass.fromFound /\ pass.toFound
Visible == output.kind = "canvas"
RetryPending == timer # NoTimer /\ timer \in pending
AnchorsResolvable ==
    /\ querySelector(dom, props.fromSelector) # None
    /\ querySelector(dom, props.toSelector) # None
HideMatches ==
    /\ props.hideIfFoundSelector # ""
    /\ querySelector(dom, props.hideIfFoundSelector) # None

\* C1, as stated: after any sequence of render passes at most one retry timer
\* of the instance is pending.
C1_AtMostOnePendingTimer == Cardinality(pending) <= 1

\* C2, as stated: once the instance is torn down, no retry callback it
\* scheduled is invoked.
C2_NoCallbackAfterTeardown == ~(lifecycle = "unmounted" /\ lastEvent = "timer")

\* C3: in an interactive context a pass that misses an anchor produces no
\* surface and leaves a retry pending; a retry that fires with both anchors
\* in the page and hideIfFoundSelector not matching produces a surface; and so
\* once the anchors are there after such a pass, the surface appears, unless
\* the anchors go, hideIfFoundSelector matches or the instance is torn down.
C3_MissingAnchorsRetryUntilVisible ==
    /\ []((Interactive /\ ~BothFound) => (~Visible /\ RetryPending))
    /\ [][(lifecycle' = "mounted" /\ pass'.retry /\ pass'.fromFound /\ pass'.toFound
             /\ ~pass'.hideFound) => output'.kind = "canvas"]_vars
    /\ ((Interactive /\ ~BothFound /\ AnchorsResolvable)
          ~> (Visible \/ ~AnchorsResolvable \/ HideMatches \/ lifecycle # "mounted"))

\* a retry fired after a pass that missed an anchor, found both and drew
C3_Witness ==
    /\ Interactive
    /\ lastEvent = "timer"
    /\ pass.retry
    /\ BothFound
    /\ ~props.dynamicUpdate
    /\ Visible

\* C4: a pass in which hideIfFoundSelector is given and resolves to an element
\* produces no surface, whatever the anchors resolve to.
C4_HideSuppressesSurface ==
    (Interactive /\ pass.hideFound) => output.kind = "null"

\* both anchors resolved, the hide element was found, nothing was drawn
C4_Witness ==
    /\ Interactive
    /\ pass.hideFound
    /\ BothFound
    /\ output.kind = "null"

\* C5: with dynamicUpdate on, in an interactive context, a pass in which both
\* anchors resolve schedules a retry too: after every such pass, a timer-run
\* one included, this.timer is a pending timeout.
C5_DynamicUpdateKeepsPolling ==
    (Interactive /\ props.dynamicUpdate /\ BothFound) =>
        (pass.scheduled /\ RetryPending)

\* a timeout ran a pass that drew the arrow and left the next timeout pending
C5_Witness ==
    /\ Interactive
    /\ props.dynamicUpdate
    /\ lastEvent = "timer"
    /\ BothFound
    /\ Visible
    /\ RetryPending

\* C10, as stated: with dynamicUpdate off, a pass in which both anchors
\* resolve schedules no timer, and from then on nothing but the host renders
\* the instance again: no timeout of the instance is left pending.
C10_StaticPassStopsRetries ==
    (Interactive /\ ~props.dynamicUpdate /\ BothFound) =>
        (~pass.scheduled /\ pending = {})

---------------------------------------------------------------------------
(* Claims about the geometry of a pass, checked under GeomSpec *)

Box == output
FromRect == dom.elements[props.fromSelector]
ToRect == dom.elements[props.toSelector]
\* the centres of the two elements in document coordinates
FromCentre ==
    <<Add(FromRect.left, Mul(FromRect.width, Rat(1, 2))),
      Add(Add(FromRect.top, Mul(FromRect.height, Rat(1, 2))), dom.scrollY)>>
ToCentre ==
    <<Add(ToRect.left, Mul(ToRect.width, Rat(1, 2))),
      Add(Add(ToRect.top, Mul(ToRect.height, Rat(1, 2))), dom.scrollY)>>
Midpoint(a, b) == Mul(Add(a, b), Rat(1, 2))
NoOffsets ==
    /\ props.fromOffsetX = Num(0) /\ props.fromOffsetY = Num(0)
    /\ props.toOffsetX = Num(0) /\ props.toOffsetY = Num(0)
    /\ props.middleX = Num(0) /\ props.middleY = Num(0)
Least(a, b) == IF Leq(a, b) THEN a ELSE b
Most(a, b) == IF Leq(a, b) THEN b ELSE a
HalfStroke == Mul(props.width, Rat(1, 2))

\* C8, as stated: for every positive stroke width the surface, the curve's
\* box padded by arrowheadSize - strokeWidth, is no narrower and no lower than
\* the unpadded box and contains the stroked curve; of the stroked curve, the
\* round caps at the two anchors (discs of half the stroke width) are stated.
C8_SurfaceContainsStroke ==
    Visible =>
        /\ Leq(Sub(Box.x_min_max[2], Box.x_min_max[1]), Box.width)
        /\ Leq(Sub(Box.y_min_max[2], Box.y_min_max[1]), Box.height)
        /\ \A pt \in {<<Box.p0x, Box.p0y>>, <<Box.p2x, Box.p2y>>} :
              /\ Leq(HalfStroke, pt[1]) /\ Leq(Add(pt[1], HalfStroke), Box.width)
              /\ Leq(HalfStroke, pt[2]) /\ Leq(Add(pt[2], HalfStroke), Box.height)

\* the points a pass derives: start and end from the rectangles, the offsets
\* and the scroll position, control from their midpoint and the displacement
C9_PointsDerived ==
    /\ Box.settings.p0x = Add(FromCentre[1], props.fromOffsetX)
    /\ Box.settings.p0y = Sub(FromCentre[2], props.fromOffsetY)
    /\ Box.settings.p2x = Add(ToCentre[1], props.toOffsetX)
    /\ Box.settings.p2y = Sub(ToCentre[2], props.toOffsetY)
    /\ Box.settings.p1x =
          Add(Midpoint(Box.settings.p0x, Box.settings.p2x), props.middleX)
    /\ Box.settings.p1y =
          Sub(Midpoint(Box.settings.p0y, Box.settings.p2y), props.middleY)

\* C9, as stated: a pass derives start, end and control as above, and with
\* all offsets and the displacement zero the control point is the midpoint
\* and the box before padding is exactly the box spanned by the two anchors.
C9_BoxIsAnchorSpan ==
    Visible =>
        /\ C9_PointsDerived
        /\ NoOffsets =>
              /\ Box.settings.p1x = Midpoint(FromCentre[1], ToCentre[1])
              /\ Box.settings.p1y = Midpoint(FromCentre[2], ToCentre[2])
              /\ Box.x_min_max = <<Least(FromCentre[1], ToCentre[1]),
                                   Most(FromCentre[1], ToCentre[1])>>
              /\ Box.y_min_max = <<Least(FromCentre[2], ToCentre[2]),
                                   Most(FromCentre[2], ToCentre[2])>>

\* C9, amended: a pass derives start, end and control as above, and with all
\* offsets and the displacement zero the control point is the midpoint and
\* the box before padding is the box spanned by the two anchors with each
\* bound rounded to the nearest integer: exactly that box when the anchors'
\* coordinates are integers, as for anchors (100,100) and (300,100), which
\* give control (200,100) and the box x:[100,300], y:[100,100].
C9_BoxIsRoundedAnchorSpan ==
    Visible =>
        /\ C9_PointsDerived
        /\ NoOffsets =>
              /\ Box.settings.p1x = Midpoint(FromCentre[1], ToCentre[1])
              /\ Box.settings.p1y = Midpoint(FromCentre[2], ToCentre[2])
              /\ IsNearest(Box.x_min_max[1], Least(FromCentre[1], ToCentre[1]))
              /\ IsNearest(Box.x_min_max[2], Most(FromCentre[1], ToCentre[1]))
              /\ IsNearest(Box.y_min_max[1], Least(FromCentre[2], ToCentre[2]))
              /\ IsNearest(Box.y_min_max[2], Most(FromCentre[2], ToCentre[2]))
              /\ (\A c \in {FromCentre[1], FromCentre[2], ToCentre[1], ToCentre[2]} : IsInt(c)) =>
                    /\ Box.x_min_max = <<Least(FromCentre[1], ToCentre[1]),
                                         Most(FromCentre[1], ToCentre[1])>>
                    /\ Box.y_min_max = <<Least(FromCentre[2], ToCentre[2]),
                                         Most(FromCentre[2], ToCentre[2])>>
        /\ (NoOffsets /\ FromCentre = <<Num(100), Num(100)>>
                      /\ ToCentre = <<Num(300), Num(100)>>) =>
              /\ <<Box.settings.p1x, Box.settings.p1y>> = <<Num(200), Num(100)>>
              /\ Box.x_min_max = <<Num(100), Num(300)>>
              /\ Box.y_min_max = <<Num(100), Num(100)>>

\* the pass for anchors (100,100) and (300,100), no offsets, no displacement
C9_Witness ==
    /\ Visible
    /\ NoOffsets
    /\ Box.settings.p0x = Num(100) /\ Box.settings.p0y = Num(100)
    /\ Box.settings.p2x = Num(300) /\ Box.settings.p2y = Num(100)
    /\ Box.settings.p1x = Num(200)
    /\ Box.x_min_max = <<Num(100), Num(300)>>

---------------------------------------------------------------------------
(* Claims about the curve functions, checked under CurveSpec *)

Measured == extent # None /\ sample # None
Collinear == Divisor(args[1], args[2], args[3]) = Num(0)

\* C6, as stated: the pair (min, max) that extent returns contains
\* evaluate(p0, p1, p2, t) for every t in [0, 1].
C6_ExtentContainsCurve ==
    Measured =>
        /\ Leq(extent.minmax[1], sample.value)
        /\ Leq(sample.value, extent.minmax[2])

\* C6, amended: extent returns bounds rounded to the nearest integer, so
\* they contain evaluate(p0, p1, p2, t), t in [0, 1], up to half a unit:
\* min - 1/2 <= evaluate(p0, p1, p2, t) <= max + 1/2.
C6_ExtentContainsCurveWithinHalf ==
    Measured =>
        /\ IsInt(extent.minmax[1]) /\ IsInt(extent.minmax[2])
        /\ Leq(Sub(extent.minmax[1], Rat(1, 2)), sample.value)
        /\ Leq(sample.value, Add(extent.minmax[2], Rat(1, 2)))

\* an interior extremum above both endpoints was evaluated and sampled
C6_Witness ==
    /\ Measured
    /\ extent.middle # None
    /\ sample.value = extent.middle
    /\ Lt(MathMax(args[1], args[3]), sample.value)

\* C7, as stated: for collinear control values (p0 - 2*p1 + p2 = 0) extent
\* returns exactly (min(p0, p2), max(p0, p2)) and evaluates no interior
\* critical point.
C7_CollinearExact ==
    (extent # None /\ Collinear) =>
        /\ extent.minmax = <<MathMin(args[1], args[3]), MathMax(args[1], args[3])>>
        /\ extent.middle = None

\* C7, amended: for collinear control values extent returns min(p0, p2) and
\* max(p0, p2) each rounded to the nearest integer (exactly the two values
\* when p0 and p2 are integers) and evaluates no interior critical point.
C7_CollinearRounded ==
    (extent # None /\ Collinear) =>
        /\ IsNearest(extent.minmax[1], MathMin(args[1], args[3]))
        /\ IsNearest(extent.minmax[2], MathMax(args[1], args[3]))
        /\ (IsInt(args[1]) /\ IsInt(args[3])) =>
               extent.minmax = <<MathMin(args[1], args[3]), MathMax(args[1], args[3])>>
        /\ extent.middle = None

\* a collinear triple of three different values went through extent
C7_Witness ==
    /\ extent # None
    /\ Collinear
    /\ args[1] # args[3]
    /\ ~IsInt(args[1])

=============================================================================
